---- MODULE Spec2Model ----
(***************************************************************************)
(* Model of sentry/scim/endpoints/utils.py: the SCIM filter parser         *)
(* parse_filter_conditions, the content negotiation select_parser and the  *)
(* permission check OrganizationSCIMPermission.has_object_permission.      *)
(*                                                                         *)
(* A Python str is modelled as a sequence of one-character strings, so     *)
(* that str.split, str.strip, slicing and int() are computed character by  *)
(* character as the interpreter computes them.                             *)
(***************************************************************************)
EXTENDS Integers, Sequences, FiniteSets, TLC

VARIABLES
    raw_filters,             \* argument of the one call of SpecFilter
    outcome,                 \* what that call returned or raised
    ACCEPTED_FILTERED_KEYS,  \* the module-level allow-list
    frames,                  \* SpecThreads: the frame of each concurrent call
    parsers,                 \* SpecNegotiation: media types of the parser list
    selected,                \* SpecNegotiation: what select_parser returned
    auth_providers,          \* SpecPermission: the AuthProvider table
    permission               \* SpecPermission: the last has_object_permission call

vars == <<raw_filters, outcome, ACCEPTED_FILTERED_KEYS, frames, parsers, selected,
          auth_providers, permission>>

(***************************************************************************)
(* Bounds of the model.                                                    *)
(***************************************************************************)
\* raw filter strings are concatenations of at most MaxTokens tokens
MaxTokens == 4
\* concurrent calls of the parser
NumThreads == 2
\* length of the parser list handed to select_parser
MaxParsers == 3
\* organizations in the AuthProvider table
NumOrgs == 3

(***************************************************************************)
(* Text the inputs are built from.                                         *)
(***************************************************************************)
\* the absent filter: no str equals it, every element of a str being one character
None == <<"None">>

sUserName == <<"u", "s", "e", "r", "N", "a", "m", "e">>
sValue == <<"v", "a", "l", "u", "e">>
sDisplayName == <<"d", "i", "s", "p", "l", "a", "y", "N", "a", "m", "e">>
sEq == <<" ", "e", "q", " ">>
sComma == <<",">>

AcceptedFilteredKeys == <<sUserName, sValue, sDisplayName>>

sQuoted5 == <<"\"", "5", "\"">>
sQuotedNeg12 == <<"\"", "-", "1", "_", "2", "\"">>

Tokens ==
    {sUserName, sValue, sDisplayName, sEq, sComma, <<" ">>, <<"\"">>, <<"5">>,
     <<"e", "q">>, sQuoted5, sQuotedNeg12}

RECURSIVE Flatten(_)
Flatten(ts) == IF ts = <<>> THEN <<>> ELSE Head(ts) \o Flatten(Tail(ts))

TokenSeqs == UNION {[1..n -> Tokens] : n \in 0..MaxTokens}

Inputs == {None} \cup {Flatten(ts) : ts \in TokenSeqs}

\* the raw filters the concurrent calls are made with
ThreadInputs ==
    {None,
     Flatten(<<sUserName, sEq, sQuoted5>>),
     Flatten(<<sDisplayName, sEq, <<" ">>>>),
     Flatten(<<sValue, sEq, sQuotedNeg12>>),
     Flatten(<<sValue, sEq, <<"\"">>, sUserName, <<"\"">>>>),
     Flatten(<<sQuoted5, sEq, sQuoted5>>),
     Flatten(<<sUserName, sEq, sQuoted5, sComma, sValue, sEq, sQuoted5>>),
     Flatten(<<sUserName, <<" ">>, sQuoted5>>),
     Flatten(<<sEq, sQuoted5>>)}

(***************************************************************************)
(* Python string primitives.                                               *)
(***************************************************************************)
Whitespace == {" ", "\t", "\n", "\r"}

\* s[i:i+len(sep)] == sep, i counted from 1
MatchAt(s, sep, i) ==
    /\ i + Len(sep) - 1 <= Len(s)
    /\ SubSeq(s, i, i + Len(sep) - 1) = sep

\* str.split(sep): left-to-right, non-overlapping occurrences of sep
RECURSIVE SplitFrom(_, _, _, _)
SplitFrom(s, sep, start, i) ==
    IF i > Len(s) THEN <<SubSeq(s, start, Len(s))>>
    ELSE IF MatchAt(s, sep, i)
         THEN <<SubSeq(s, start, i - 1)>>
              \o SplitFrom(s, sep, i + Len(sep), i + Len(sep))
         ELSE SplitFrom(s, sep, start, i + 1)

Split(s, sep) == SplitFrom(s, sep, 1, 1)

RECURSIVE LStrip(_)
LStrip(s) ==
    IF s # <<>> /\ Head(s) \in Whitespace THEN LStrip(Tail(s)) ELSE s

RECURSIVE RStrip(_)
RStrip(s) ==
    IF s # <<>> /\ s[Len(s)] \in Whitespace
    THEN RStrip(SubSeq(s, 1, Len(s) - 1)) ELSE s

\* str.strip()
Strip(s) == RStrip(LStrip(s))

\* variant: removes the end characters only when both are quote marks
SliceInnerIfQuoted(s) ==
    IF Len(s) >= 2 /\ s[1] = "\"" /\ s[Len(s)] = "\""
    THEN SubSeq(s, 2, Len(s) - 1) ELSE s

\* s[1:-1]
SliceInner(s) == IF Len(s) < 2 THEN <<>> ELSE SubSeq(s, 2, Len(s) - 1)

\* variant: x.startswith(an element of list)
InListPrefix(x, list) ==
    \E i \in 1..Len(list) :
        Len(list[i]) <= Len(x) /\ SubSeq(x, 1, Len(list[i])) = list[i]

\* x in list
InList(x, list) == \E i \in 1..Len(list) : list[i] = x

Digits == {"0", "1", "2", "3", "4", "5", "6", "7", "8", "9"}

DigitValue(c) ==
    CASE c = "0" -> 0 [] c = "1" -> 1 [] c = "2" -> 2 [] c = "3" -> 3
      [] c = "4" -> 4 [] c = "5" -> 5 [] c = "6" -> 6 [] c = "7" -> 7
      [] c = "8" -> 8 [] c = "9" -> 9

\* the digits of an int() literal: digits, single underscores only between digits
IntBodyOk(s) ==
    /\ s # <<>>
    /\ \A i \in 1..Len(s) : s[i] \in Digits \cup {"_"}
    /\ s[1] # "_" /\ s[Len(s)] # "_"
    /\ \A i \in 1..(Len(s) - 1) : ~(s[i] = "_" /\ s[i + 1] = "_")

RECURSIVE IntBodyValue(_, _)
IntBodyValue(s, acc) ==
    IF s = <<>> THEN acc
    ELSE IF Head(s) = "_" THEN IntBodyValue(Tail(s), acc)
         ELSE IntBodyValue(Tail(s), 10 * acc + DigitValue(Head(s)))

IntSigned(s) == s # <<>> /\ Head(s) \in {"+", "-"}

IntBody(s) == IF IntSigned(s) THEN Tail(s) ELSE s

\* int(s) succeeds
IntOk(s) == IntBodyOk(IntBody(Strip(s)))

\* int(s), for IntOk(s)
IntValue(s) ==
    LET t == Strip(s)
        n == IntBodyValue(IntBody(t), 0)
    IN IF IntSigned(t) /\ Head(t) = "-" THEN 0 - n ELSE n

(***************************************************************************)
(* Outcomes of a call: a returned value or a raised exception, with the    *)
(* source line that produced it.                                           *)
(***************************************************************************)
Pending == [kind |-> "pending", type |-> "none", str |-> <<>>, num |-> 0, line |-> 0]

\* filters = [] ... return filters
ReturnList(l) == [kind |-> "return", type |-> "list", str |-> <<>>, num |-> 0, line |-> l]

ReturnStr(s, l) == [kind |-> "return", type |-> "str", str |-> s, num |-> 0, line |-> l]

ReturnInt(n, l) == [kind |-> "return", type |-> "int", str |-> <<>>, num |-> n, line |-> l]

Raise(exc, l) == [kind |-> "raise", type |-> exc, str |-> <<>>, num |-> 0, line |-> l]

(***************************************************************************)
(* parse_filter_conditions                                                 *)
(***************************************************************************)
\* variant: tests for the empty string instead of None
IsEmptyStr(raw) == raw = <<>>

\* if raw_filters is None
IsNone(raw) == raw = None

\* variant: if len(conditions) > 2
TooManyConditionsOffByOne(conditions) == Len(conditions) > 2

\* if len(conditions) > 1
TooManyConditions(conditions) == Len(conditions) > 1

\* variant: only a missing token fails, further parts are dropped
UnpackFailsShort(parts) == Len(parts) < 2

\* [key, value] = condition.split(" eq ") raises ValueError
UnpackFails(parts) == Len(parts) # 2

\* if not key or not value
EmptyPart(key, value) == key = <<>> \/ value = <<>>

\* variant: the int() conversion is left out
ConvertValueNoInt(key, value) == ReturnStr(value, 135)

\* value = int(value); return value
ConvertValue(key, value) ==
    IF key = sValue
    THEN IF IntOk(value) THEN ReturnInt(IntValue(value), 135)
         ELSE Raise("ValueError", 133)
    ELSE ReturnStr(value, 135)

parse_filter_conditions(raw, accepted) ==
    IF IsNone(raw) THEN ReturnList(105)
    ELSE
    LET conditions == Split(raw, sComma) IN
    IF TooManyConditions(conditions) THEN Raise("SCIMFilterError", 114)
    ELSE
    LET parts == Split(conditions[1], sEq) IN
    IF UnpackFails(parts) THEN Raise("SCIMFilterError", 120)
    ELSE
    IF EmptyPart(parts[1], parts[2]) THEN Raise("SCIMFilterError", 123)
    ELSE
    LET key == Strip(parts[1])
        value == SliceInner(Strip(parts[2]))
    IN
    IF ~InList(key, accepted) THEN Raise("SCIMFilterError", 131)
    ELSE ConvertValue(key, value)

(***************************************************************************)
(* SCIMClientNegotiation.select_parser                                     *)
(***************************************************************************)
SCIM_CONTENT_TYPES == <<"application/json", "application/json+scim">>

MediaTypes ==
    {"application/json", "application/json+scim", "multipart/form-data",
     "application/x-www-form-urlencoded"}

ParserLists == UNION {[1..n -> MediaTypes] : n \in 0..MaxParsers}

\* the position of the parser returned, 0 when the loop ends and None is returned
RECURSIVE SelectFrom(_, _)
SelectFrom(ps, i) ==
    IF i > Len(ps) THEN 0
    ELSE IF InList(ps[i], SCIM_CONTENT_TYPES) THEN i
         ELSE SelectFrom(ps, i + 1)

select_parser(ps) == SelectFrom(ps, 1)

(***************************************************************************)
(* OrganizationSCIMPermission.has_object_permission                        *)
(***************************************************************************)
Organizations == 1..NumOrgs

\* a row of AuthProvider for an organization, or none (DoesNotExist)
ProviderStates == {"DoesNotExist", "scim_enabled", "scim_disabled"}

\* variant: the scim_enabled flag is not consulted
has_object_permission_NoFlag(base, provider) ==
    IF ~base THEN [result |-> base, lookups |-> 0]
    ELSE IF provider = "DoesNotExist" THEN [result |-> FALSE, lookups |-> 1]
    ELSE [result |-> TRUE, lookups |-> 1]

\* result: the value returned; lookups: calls of AuthProvider.objects.get
has_object_permission(base, provider) ==
    IF ~base THEN [result |-> base, lookups |-> 0]
    ELSE IF provider = "DoesNotExist" THEN [result |-> FALSE, lookups |-> 1]
    ELSE IF provider # "scim_enabled" THEN [result |-> FALSE, lookups |-> 1]
    ELSE [result |-> TRUE, lookups |-> 1]

NoCall == [organization |-> 0, base |-> FALSE, result |-> FALSE, lookups |-> 0]

(***************************************************************************)
(* Values of the variables a specification does not use.                   *)
(***************************************************************************)
NoFrames == [t \in {} |-> Pending]

FilterIdle == raw_filters = None /\ outcome = Pending

ThreadsIdle == frames = NoFrames

NegotiationIdle == parsers = <<>> /\ selected = -1

PermissionIdle == auth_providers = <<>> /\ permission = NoCall

(***************************************************************************)
(* SpecFilter: one call of the parser on an arbitrary raw filter.          *)
(***************************************************************************)
InitFilter ==
    /\ raw_filters \in Inputs
    /\ outcome = Pending
    /\ ACCEPTED_FILTERED_KEYS = AcceptedFilteredKeys
    /\ ThreadsIdle /\ NegotiationIdle /\ PermissionIdle

CallParseFilter ==
    /\ outcome.kind = "pending"
    /\ outcome' = parse_filter_conditions(raw_filters, ACCEPTED_FILTERED_KEYS)
    /\ UNCHANGED <<raw_filters, ACCEPTED_FILTERED_KEYS, frames, parsers, selected,
                   auth_providers, permission>>

NextFilter == CallParseFilter

SpecFilter == InitFilter /\ [][NextFilter]_vars

(***************************************************************************)
(* SpecThreads: NumThreads request threads call the parser concurrently.   *)
(* Each call has its own frame of locals; a step is one statement group of *)
(* the function, named by the line its frame stands at.                    *)
(***************************************************************************)
Threads == 1..NumThreads

NewFrame(raw) ==
    [pc |-> "L103", raw_filters |-> raw, conditions |-> <<>>, key |-> <<>>,
     value |-> <<>>, outcome |-> Pending]

Finish(f, out) == [f EXCEPT !.pc = "done", !.outcome = out]

InitThreads ==
    /\ frames \in [Threads -> {NewFrame(raw) : raw \in ThreadInputs}]
    /\ ACCEPTED_FILTERED_KEYS = AcceptedFilteredKeys
    /\ FilterIdle /\ NegotiationIdle /\ PermissionIdle

ThreadsUnchanged ==
    UNCHANGED <<raw_filters, outcome, parsers, selected, auth_providers, permission>>

\* filters = []; if raw_filters is None: return filters
StepEnter(t) ==
    LET f == frames[t] IN
    /\ f.pc = "L103"
    /\ frames' = [frames EXCEPT ![t] =
           IF IsNone(f.raw_filters) THEN Finish(f, ReturnList(105))
           ELSE [f EXCEPT !.pc = "L108"]]
    /\ UNCHANGED ACCEPTED_FILTERED_KEYS
    /\ ThreadsUnchanged

\* conditions = raw_filters.split(","); if len(conditions) > 1: raise
StepSplitConditions(t) ==
    LET f == frames[t]
        conditions == Split(f.raw_filters, sComma)
    IN
    /\ f.pc = "L108"
    /\ frames' = [frames EXCEPT ![t] =
           IF TooManyConditions(conditions) THEN Finish(f, Raise("SCIMFilterError", 114))
           ELSE [f EXCEPT !.pc = "L116", !.conditions = conditions]]
    /\ UNCHANGED ACCEPTED_FILTERED_KEYS
    /\ ThreadsUnchanged

\* condition = conditions[0]; [key, value] = condition.split(" eq ")
StepSplitCondition(t) ==
    LET f == frames[t]
        parts == Split(f.conditions[1], sEq)
    IN
    /\ f.pc = "L116"
    /\ frames' = [frames EXCEPT ![t] =
           IF UnpackFails(parts) THEN Finish(f, Raise("SCIMFilterError", 120))
           ELSE [f EXCEPT !.pc = "L122", !.key = parts[1], !.value = parts[2]]]
    /\ UNCHANGED ACCEPTED_FILTERED_KEYS
    /\ ThreadsUnchanged

\* if not key or not value: raise; strip both; value = value[1:-1]
StepTrim(t) ==
    LET f == frames[t] IN
    /\ f.pc = "L122"
    /\ frames' = [frames EXCEPT ![t] =
           IF EmptyPart(f.key, f.value) THEN Finish(f, Raise("SCIMFilterError", 123))
           ELSE [f EXCEPT !.pc = "L130", !.key = Strip(f.key),
                          !.value = SliceInner(Strip(f.value))]]
    /\ UNCHANGED ACCEPTED_FILTERED_KEYS
    /\ ThreadsUnchanged

\* variant: an accepted key is removed from the module-level list once used
StepCheckKeyConsuming(t) ==
    LET f == frames[t] IN
    /\ f.pc = "L130"
    /\ frames' = [frames EXCEPT ![t] =
           IF ~InList(f.key, ACCEPTED_FILTERED_KEYS)
           THEN Finish(f, Raise("SCIMFilterError", 131))
           ELSE [f EXCEPT !.pc = "L132"]]
    /\ ACCEPTED_FILTERED_KEYS' =
           SelectSeq(ACCEPTED_FILTERED_KEYS, LAMBDA k : k # f.key)
    /\ ThreadsUnchanged

\* if key not in ACCEPTED_FILTERED_KEYS: raise
StepCheckKey(t) ==
    LET f == frames[t] IN
    /\ f.pc = "L130"
    /\ frames' = [frames EXCEPT ![t] =
           IF ~InList(f.key, ACCEPTED_FILTERED_KEYS)
           THEN Finish(f, Raise("SCIMFilterError", 131))
           ELSE [f EXCEPT !.pc = "L132"]]
    /\ UNCHANGED ACCEPTED_FILTERED_KEYS
    /\ ThreadsUnchanged

\* if key == "value": value = int(value); return value
StepConvert(t) ==
    LET f == frames[t] IN
    /\ f.pc = "L132"
    /\ frames' = [frames EXCEPT ![t] = Finish(f, ConvertValue(f.key, f.value))]
    /\ UNCHANGED ACCEPTED_FILTERED_KEYS
    /\ ThreadsUnchanged

NextThreads ==
    \E t \in Threads :
        \/ StepEnter(t)
        \/ StepSplitConditions(t)
        \/ StepSplitCondition(t)
        \/ StepTrim(t)
        \/ StepCheckKey(t)
        \/ StepConvert(t)

SpecThreads == InitThreads /\ [][NextThreads]_vars

(***************************************************************************)
(* SpecNegotiation: one call of select_parser on an arbitrary parser list. *)
(***************************************************************************)
InitNegotiation ==
    /\ parsers \in ParserLists
    /\ selected = -1
    /\ ACCEPTED_FILTERED_KEYS = AcceptedFilteredKeys
    /\ FilterIdle /\ ThreadsIdle /\ PermissionIdle

CallSelectParser ==
    /\ selected = -1
    /\ selected' = select_parser(parsers)
    /\ UNCHANGED <<raw_filters, outcome, ACCEPTED_FILTERED_KEYS, frames, parsers,
                   auth_providers, permission>>

NextNegotiation == CallSelectParser

SpecNegotiation == InitNegotiation /\ [][NextNegotiation]_vars

(***************************************************************************)
(* SpecPermission: permission checks against an arbitrary AuthProvider     *)
(* table; the result of OrganizationPermission.has_object_permission is an *)
(* input of each check.                                                    *)
(***************************************************************************)
InitPermission ==
    /\ auth_providers \in [Organizations -> ProviderStates]
    /\ permission = NoCall
    /\ ACCEPTED_FILTERED_KEYS = AcceptedFilteredKeys
    /\ FilterIdle /\ ThreadsIdle /\ NegotiationIdle

CallHasObjectPermission ==
    \E organization \in Organizations, base \in BOOLEAN :
        LET r == has_object_permission(base, auth_providers[organization]) IN
        /\ permission' = [organization |-> organization, base |-> base,
                          result |-> r.result, lookups |-> r.lookups]
        /\ UNCHANGED <<raw_filters, outcome, ACCEPTED_FILTERED_KEYS, frames, parsers,
                       selected, auth_providers>>

NextPermission == CallHasObjectPermission

SpecPermission == InitPermission /\ [][NextPermission]_vars

(***************************************************************************)
(* Vocabulary of the properties, stated on the raw text and not through    *)
(* the parser's own steps.                                                 *)
(***************************************************************************)
Done == outcome.kind # "pending"

IsText == raw_filters # None

FailsWith(exc) == outcome.kind = "raise" /\ outcome.type = exc

HasComma(s) == \E i \in 1..Len(s) : s[i] = ","

\* where the token " eq " occurs in s
EqPositions(s) == {i \in 1..Len(s) : MatchAt(s, sEq, i)}

\* the leftmost occurrence
FirstEq(s) == CHOOSE i \in EqPositions(s) : \A j \in EqPositions(s) : j >= i

\* splitting on " eq " yields exactly two parts: there is a leftmost occurrence
\* and the text after it holds no further one
TwoParts(s) ==
    /\ EqPositions(s) # {}
    /\ \A j \in EqPositions(s) : j < FirstEq(s) + Len(sEq)

KeyPart(s) == SubSeq(s, 1, FirstEq(s) - 1)

ValuePart(s) == SubSeq(s, FirstEq(s) + Len(sEq), Len(s))

\* one comma-free segment with one " eq " split
OneCondition == IsText /\ ~HasComma(raw_filters) /\ TwoParts(raw_filters)

\* the call gets as far as trimming the key and the value
Trimmed == OneCondition /\ KeyPart(raw_filters) # <<>> /\ ValuePart(raw_filters) # <<>>

TrimmedKey == Strip(KeyPart(raw_filters))

TrimmedValue == Strip(ValuePart(raw_filters))

\* v without its first and its last character
Inner(v) == [i \in 1..(IF Len(v) < 2 THEN 0 ELSE Len(v) - 2) |-> v[i + 1]]

AllowedKeys == {sUserName, sValue, sDisplayName}

(***************************************************************************)
(* Properties of parse_filter_conditions (SpecFilter).                     *)
(***************************************************************************)
\* C1: once key and value part are trimmed, an empty one makes the call fail
\* with SCIMFilterError, for every single comma-free segment with one " eq ",
\* whitespace-only key or value parts included.
C1_EmptyAfterTrimFails ==
    (Done /\ OneCondition /\ (TrimmedKey = <<>> \/ TrimmedValue = <<>>))
        => FailsWith("SCIMFilterError")

\* C2: with the trimmed key 'value' the call returns the integer that the value
\* without its first and last character denotes, or fails with a ValueError that
\* is not a SCIMFilterError when that text is no integer; never a string.
C2_ValueKeyIsInteger ==
    (Done /\ Trimmed /\ TrimmedKey = sValue) =>
        LET rest == Inner(TrimmedValue) IN
        /\ IntOk(rest) => outcome = ReturnInt(IntValue(rest), 135)
        /\ ~IntOk(rest) => FailsWith("ValueError")
        /\ ~(outcome.kind = "return" /\ outcome.type = "str")
        /\ ~FailsWith("SCIMFilterError")
        /\ raw_filters = sValue \o sEq \o sQuoted5 => outcome.num = 5
        /\ raw_filters = sValue \o sEq \o sQuotedNeg12 => outcome.num = 0 - 12
        /\ TrimmedValue = <<"\"">> \o sUserName \o <<"\"">> => FailsWith("ValueError")

C2_Witness ==
    /\ Done /\ Trimmed /\ TrimmedKey = sValue
    /\ raw_filters = sValue \o sEq \o sQuoted5
    /\ outcome.kind = "return" /\ outcome.type = "int" /\ outcome.num = 5

\* C3: with the trimmed key 'userName' or 'displayName' the call returns the
\* trimmed value part without its first and its last character, quote marks or
\* not; a trimmed value of fewer than 2 characters gives the empty string.
C3_NameKeyReturnsInner ==
    (Done /\ Trimmed /\ TrimmedKey \in {sUserName, sDisplayName}) =>
        /\ outcome = ReturnStr(Inner(TrimmedValue), 135)
        /\ Len(TrimmedValue) < 2 => outcome.kind = "return" /\ outcome.str = <<>>

C3_Witness ==
    /\ Done /\ Trimmed /\ TrimmedKey = sDisplayName
    /\ TrimmedValue = <<"5">> \o sQuoted5
    /\ outcome.kind = "return" /\ outcome.str = <<"\"", "5">>

\* C4: a trimmed key outside the allow-list makes the call fail with
\* SCIMFilterError whatever the value part is; no call with such a key returns.
C4_UnknownKeyFails ==
    (Done /\ Trimmed /\ TrimmedKey \notin AllowedKeys)
        => FailsWith("SCIMFilterError") /\ outcome.line = 131

C4_Witness ==
    /\ Done /\ Trimmed
    /\ TrimmedKey = sUserName \o sValue
    /\ ValuePart(raw_filters) = sQuoted5
    /\ FailsWith("SCIMFilterError")

\* C5: every raw filter that contains a ',' fails with SCIMFilterError, also
\* when what precedes the comma is a condition the parser accepts.
C5_CommaFails ==
    (Done /\ IsText /\ HasComma(raw_filters))
        => FailsWith("SCIMFilterError") /\ outcome.line = 114

C5_Witness ==
    /\ Done /\ IsText
    /\ raw_filters = sUserName \o sEq \o sQuoted5 \o sComma
    /\ FailsWith("SCIMFilterError")

\* C6: a comma-free raw filter that " eq " does not split into exactly two
\* parts (no occurrence, or a further one after the first) fails with
\* SCIMFilterError.
C6_NotTwoPartsFails ==
    (Done /\ IsText /\ ~HasComma(raw_filters) /\ ~TwoParts(raw_filters))
        => FailsWith("SCIMFilterError") /\ outcome.line = 120

C6_Witness ==
    /\ Done /\ IsText /\ ~HasComma(raw_filters)
    /\ raw_filters = sUserName \o sEq \o sQuoted5 \o sEq
    /\ Cardinality(EqPositions(raw_filters)) = 2
    /\ FailsWith("SCIMFilterError")

\* C7: for the absent filter the call returns the empty list from its first
\* test, with no error and none of the later steps run.
C7_NoneReturnsEmpty ==
    (Done /\ ~IsText) => outcome = ReturnList(105)

C7_Witness == Done /\ ~IsText /\ outcome.kind = "return" /\ outcome.type = "list"

(***************************************************************************)
(* Property of concurrent calls (SpecThreads).                             *)
(***************************************************************************)
\* C8: however the calls interleave, a finished call's outcome is the one its
\* own raw filter gives when parsed alone, and the allow-list never changes.
C8_Stateless ==
    /\ ACCEPTED_FILTERED_KEYS = AcceptedFilteredKeys
    /\ \A t \in DOMAIN frames :
           frames[t].pc = "done" =>
               frames[t].outcome =
                   parse_filter_conditions(frames[t].raw_filters, AcceptedFilteredKeys)

C8_Witness ==
    /\ DOMAIN frames # {}
    /\ \A t \in DOMAIN frames : frames[t].pc = "done"
    /\ \E t, u \in DOMAIN frames :
           /\ t # u
           /\ frames[t].raw_filters = frames[u].raw_filters
           /\ frames[t].outcome.kind = "return" /\ frames[t].outcome.type = "str"
           /\ frames[u].outcome = frames[t].outcome

(***************************************************************************)
(* Property of select_parser (SpecNegotiation).                            *)
(***************************************************************************)
\* C9: for every non-empty parser list, select_parser returns the list's
\* first element.
C9_SelectsFirstParser ==
    (selected # -1 /\ parsers # <<>>) => selected = 1

(***************************************************************************)
(* Property of has_object_permission (SpecPermission).                     *)
(***************************************************************************)
\* C10: access is granted only if the base check grants it and the
\* organization has an auth provider with scim_enabled set; a denying base
\* check is returned without a lookup of the auth provider; without a provider
\* or with scim_enabled off access is denied.
C10_ScimPermission ==
    permission.organization # 0 =>
        LET provider == auth_providers[permission.organization] IN
        /\ permission.result <=> (permission.base /\ provider = "scim_enabled")
        /\ ~permission.base => permission.lookups = 0 /\ permission.result = permission.base
        /\ permission.base => permission.lookups = 1
        /\ provider \in {"DoesNotExist", "scim_disabled"} => ~permission.result

C10_Witness ==
    /\ permission.organization # 0
    /\ permission.base
    /\ auth_providers[permission.organization] = "scim_disabled"
    /\ \E o \in DOMAIN auth_providers : auth_providers[o] = "scim_enabled"
    /\ ~permission.result /\ permission.lookups = 1

====
